---- MODULE Spec2Model ----
(***************************************************************************)
(* Diffusion-limited aggregation on an N x N lattice: the sequential       *)
(* program (src/sequential.cc) and the OpenMP program (src/parallel.cc).   *)
(*                                                                         *)
(* One state machine covers both; the variable prog says which program is  *)
(* running.  A worker is one OpenMP thread of the parallel-for (the        *)
(* sequential program is its single main thread).  Every access to shared  *)
(* memory (the iteration counter, radius, one lattice cell) is a step of   *)
(* its own, so every interleaving of the threads is a behaviour.           *)
(*                                                                         *)
(* shouldStick reads up to nine cells one after the other.  Cells only go  *)
(* from 0 to 'X', so a scan that answers false saw nine cells that were    *)
(* all 0 when its first read ran, and a scan that answers true at some     *)
(* read would answer true if all nine were read at that instant: the scan  *)
(* is one step (Check), the write that follows it another (Write).  In the *)
(* same way a rejected draw of generatePoint or of the move loop changes   *)
(* nothing, so only the accepted draw, with its one read, is a step.       *)
(*                                                                         *)
(* std::default_random_engine is a nondeterministic choice of each draw.   *)
(*                                                                         *)
(* Spec starts at the parallel-for, for every accepted argument pair in    *)
(* scope.  SpecMain starts at main's first line and runs the argument      *)
(* checks; SpecCsv runs writeToFile on arbitrary lattices; SpecBlock and   *)
(* SpecCrowd follow the parallel program from its initial state under      *)
(* particular schedules and draws, on inputs beyond the scope of Spec.     *)
(***************************************************************************)
EXTENDS Integers, Sequences, FiniteSets

\* ---------------------------------------------------------------- bounds
\* the runs explored: every odd gridSize, every numParticles and every team
\* of threads with gridSize / 2 + numParticles + threads <= MaxScope
MaxScope == 7

\* ------------------------------------------------------------- constants
\* a vector<char> cell as constructed: char(0)
EMPTY == 0
\* 'X'
STUCK == 88
\* INT_MAX, the largest value std::stoi returns
IntMax == 2147483647

VARIABLES
    argv,          \* argv[1 ..]: the arguments, each a sequence of characters
    mainpc,        \* where main is: "argc", "regex", "parse", "odd",
                   \* "construct", "loop", "end"
    exitStatus,    \* "running", or the status the process ended with
    errmsg,        \* what main wrote to std::cerr, "" before
    prog,          \* "seq": sequential.cc, "par": parallel.cc
    gridSize,      \* const int gridSize
    numParticles,  \* const unsigned long numParticles
    nthreads,      \* size of the OpenMP team (1 in sequential.cc)
    grid,          \* std::vector<std::vector<char>> grid
    radius,        \* int radius
    next,          \* loop counter: p (seq), next undispatched iteration i (par)
    pc,            \* per worker: where it is in the loop body
    x, y,          \* per worker: int x, y of the loop body
    tempRadius,    \* per worker: the radius value handed to generatePoint
    output,        \* the text written to <mode>_result.txt, << >> before
    emitted,       \* writeToFile has run
    spawned,       \* history: number of points generatePoint has returned
    lastSnap,      \* history: value of the latest read of radius at loop top
    satSeen        \* history: some read of radius at loop top saw saturation

vars == <<argv, mainpc, exitStatus, errmsg, prog, gridSize, numParticles,
          nthreads, grid, radius, next, pc, x, y, tempRadius, output, emitted,
          spawned, lastSnap, satSeen>>

\* ------------------------------------------------------- pure functions
Abs(a) == IF a < 0 THEN -a ELSE a

Max(a, b) == IF a < b THEN b ELSE a

Workers == 1 .. nthreads

Cells(n) == (0 .. n - 1) \X (0 .. n - 1)

\* const int center = gridSize / 2
Center(n) == n \div 2

\* x >= 0 && x < gridSize && y >= 0 && y < gridSize
InBounds(n, px, py) == px >= 0 /\ px < n /\ py >= 0 /\ py < n

\* readGrid: atomic read of one cell
readGrid(g, px, py) == g[px][py]

\* a write that flips an occupied cell, as grid[x][y] ^= value would
writeGridToggle(g, px, py, value) ==
    [g EXCEPT ![px][py] = IF g[px][py] = EMPTY THEN value ELSE EMPTY]

\* writeGrid: atomic write of one cell
writeGrid(g, px, py, value) == [g EXCEPT ![px][py] = value]

\* the exclusion square drawn with radius - 1 for radius + 1
ExcludedNarrow(center, r, px, py) ==
    Abs(center - px) < r /\ Abs(center - py) < r

\* the do-while condition of generatePoint, first conjunct
Excluded(center, r, px, py) ==
    Abs(center - px) <= r + 1 /\ Abs(center - py) <= r + 1

\* a draw (px, py) ends the do-while of generatePoint
generatePointAccepts(p, g, center, r, px, py) ==
    /\ ~Excluded(center, r, px, py)
    /\ p = "par" => readGrid(g, px, py) = EMPTY

\* a scan of the 5 x 5 block, as dx, dy from -2 to 2 would give
shouldStickWide(g, n, px, py) ==
    \E dx \in -2 .. 2, dy \in -2 .. 2 :
        /\ InBounds(n, px + dx, py + dy)
        /\ readGrid(g, px + dx, py + dy) = STUCK

\* a scan that gives up when the particle's own cell is taken
shouldStickEmptyOnly(g, n, px, py) ==
    /\ readGrid(g, px, py) = EMPTY
    /\ \E dx \in -1 .. 1, dy \in -1 .. 1 :
        /\ InBounds(n, px + dx, py + dy)
        /\ readGrid(g, px + dx, py + dy) = STUCK

\* a scan of the four edge neighbours only
shouldStickEdges(g, n, px, py) ==
    \E dx \in -1 .. 1, dy \in -1 .. 1 :
        /\ Abs(dx) + Abs(dy) = 1
        /\ InBounds(n, px + dx, py + dy)
        /\ readGrid(g, px + dx, py + dy) = STUCK

\* some neighbour (or the cell itself) inside the lattice reads 'X'
shouldStick(g, n, px, py) ==
    \E dx \in -1 .. 1, dy \in -1 .. 1 :
        /\ InBounds(n, px + dx, py + dy)
        /\ readGrid(g, px + dx, py + dy) = STUCK

\* a draw (dx, dy) of nextMove ends the move selection of walkParticle:
\* sequential.cc takes every draw, parallel.cc redraws while the target is
\* inside the lattice and not 0
moveAccepted(p, g, n, nx, ny) ==
    p = "par" => ~(InBounds(n, nx, ny) /\ readGrid(g, nx, ny) # EMPTY)

\* the test with > for >=
SaturatedStrict(n, r) == r > n \div 2 - 1

\* radius >= gridSize / 2 - 1
Saturated(n, r) == r >= n \div 2 - 1

\* std::min for std::max
distanceMin(center, px, py) ==
    IF Abs(center - px) < Abs(center - py)
    THEN Abs(center - px) ELSE Abs(center - py)

\* the sum of the two offsets for the larger of them
distanceSum(center, px, py) == Abs(center - px) + Abs(center - py)

\* std::max(std::abs(center - x), std::abs(center - y))
distance(center, px, py) == Max(Abs(center - px), Abs(center - py))

\* the assignment without its guard
proposeAlways(r, d) == d

\* a count of the particles that reach the rim: if (distance >= radius) radius++
proposeIncrement(r, d) == IF d >= r THEN r + 1 ELSE r

\* if (distance > radius) radius = distance
propose(r, d) == IF d > r THEN d ELSE r

\* every thread of the team running the whole loop (parallel without for)
hasIterationPerThread(i, np) == i < np * nthreads

\* the loop condition p < numParticles / i < numParticles
hasIteration(i, np) == i < np

\* ------------------------------------------------- the arguments of main
\* an argument is a sequence of characters; those of the runs explored are
\* digits, letters and signs (no white space)
Digit == {"0", "1", "2", "3", "4", "5", "6", "7", "8", "9"}

DigitVal(ch) ==
    CASE ch = "0" -> 0 [] ch = "1" -> 1 [] ch = "2" -> 2 [] ch = "3" -> 3
      [] ch = "4" -> 4 [] ch = "5" -> 5 [] ch = "6" -> 6 [] ch = "7" -> 7
      [] ch = "8" -> 8 [] ch = "9" -> 9

\* std::regex_search for std::regex_match: a digit somewhere in the argument
regex_search(tok) == \E i \in 1 .. Len(tok) : tok[i] \in Digit

\* std::regex_match(s, std::regex("[0-9]+")): one digit or more, no more
regex_match(tok) ==
    /\ Len(tok) >= 1
    /\ \A i \in 1 .. Len(tok) : tok[i] \in Digit

\* strtol / strtoul: an optional sign, then the longest run of digits
SignLen(tok) == IF Len(tok) >= 1 /\ tok[1] \in {"-", "+"} THEN 1 ELSE 0

RECURSIVE DigitRun(_, _)
DigitRun(tok, i) ==
    IF i <= Len(tok) /\ tok[i] \in Digit THEN 1 + DigitRun(tok, i + 1) ELSE 0

\* the value of the n digits from tok[i] on top of acc, or -1 when it does
\* not fit an int
RECURSIVE Accumulate(_, _, _, _)
Accumulate(tok, i, n, acc) ==
    IF n = 0 THEN acc
    ELSE IF acc > (IntMax - DigitVal(tok[i])) \div 10 THEN -1
    ELSE Accumulate(tok, i + 1, n - 1, acc * 10 + DigitVal(tok[i]))

\* std::stoi: ok is FALSE where it throws (std::invalid_argument without a
\* digit, std::out_of_range beyond int; -2147483648 counts as beyond)
stoi(tok) ==
    LET s == SignLen(tok)
        n == DigitRun(tok, s + 1)
        m == Accumulate(tok, s + 1, n, 0)
    IN  IF n = 0 \/ m = -1 THEN [ok |-> FALSE, val |-> 0]
        ELSE [ok |-> TRUE, val |-> IF s = 1 /\ tok[1] = "-" THEN -m ELSE m]

\* the number of zeros at the head of the n digits from tok[i]
RECURSIVE LeadingZeros(_, _, _)
LeadingZeros(tok, i, n) ==
    IF n > 0 /\ tok[i] = "0" THEN 1 + LeadingZeros(tok, i + 1, n - 1) ELSE 0

\* ULONG_MAX of a 64-bit unsigned long, in digits
UlongMaxDigits ==
    <<"1", "8", "4", "4", "6", "7", "4", "4", "0", "7",
      "3", "7", "0", "9", "5", "5", "1", "6", "1", "5">>

\* the digits from tok[i], as many as lim has, spell a number above lim
RECURSIVE DigitsAbove(_, _, _, _)
DigitsAbove(tok, i, lim, k) ==
    IF k > Len(lim) THEN FALSE
    ELSE IF DigitVal(tok[i]) # DigitVal(lim[k])
         THEN DigitVal(tok[i]) > DigitVal(lim[k])
         ELSE DigitsAbove(tok, i + 1, lim, k + 1)

\* std::stoul: ok is FALSE where it throws (without a digit, or beyond
\* ULONG_MAX); a value that does not fit the model's integers (beyond
\* IntMax, or negated by a minus sign) is held at IntMax
stoul(tok) ==
    LET s == SignLen(tok)
        n == DigitRun(tok, s + 1)
        z == LeadingZeros(tok, s + 1, n)
        m == Accumulate(tok, s + 1, n, 0)
    IN  IF n = 0 THEN [ok |-> FALSE, val |-> 0]
        ELSE IF n - z > Len(UlongMaxDigits)
                \/ (n - z = Len(UlongMaxDigits)
                    /\ DigitsAbove(tok, s + 1 + z, UlongMaxDigits, 1))
             THEN [ok |-> FALSE, val |-> 0]
        ELSE [ok |-> TRUE,
              val |-> IF m = -1 \/ (s = 1 /\ tok[1] = "-" /\ m # 0)
                      THEN IntMax ELSE m]

\* tempSize % 2 == 0
IsEven(n) == n % 2 = 0

\* the decimal digits of n >= 0
RECURSIVE Decimal(_)
Decimal(n) ==
    IF n < 10 THEN <<(<<"0", "1", "2", "3", "4", "5", "6", "7", "8", "9">>)[n + 1]>>
    ELSE Decimal(n \div 10) \o Decimal(n % 10)

\* ---------------------------------------------------------- writeToFile
RECURSIVE writeRow(_, _, _, _)
writeRow(g, n, i, k) ==
    IF k >= n THEN << >>
    ELSE (IF k # 0 THEN <<",">> ELSE << >>)
         \o <<(IF g[i][k] # 0 THEN "1" ELSE "0")>>
         \o writeRow(g, n, i, k + 1)

\* a newline after every line, the last one too
RECURSIVE writeRowsNewline(_, _, _)
writeRowsNewline(g, n, i) ==
    IF i >= n THEN << >>
    ELSE writeRow(g, n, i, 0) \o <<"\n">> \o writeRowsNewline(g, n, i + 1)

RECURSIVE writeRows(_, _, _)
writeRows(g, n, i) ==
    IF i >= n THEN << >>
    ELSE writeRow(g, n, i, 0)
         \o (IF i # n - 1 THEN <<"\n">> ELSE << >>)
         \o writeRows(g, n, i + 1)

writeToFile(g, n) == writeRows(g, n, 0)

\* ------------------------------------------------------------------ Init
\* the lattice as constructed and seeded
InitGrid(n) ==
    writeGrid([i \in 0 .. n - 1 |-> [k \in 0 .. n - 1 |-> EMPTY]],
              Center(n), Center(n), STUCK)

\* main at the top of the particle loop, run as program p with arguments
\* n and np by a team of t threads: the lattice is all 0 but the centre,
\* radius is 0
LoopEntry(p, n, np, t) ==
    /\ argv = <<Decimal(n), Decimal(np)>>
    /\ mainpc = "loop"
    /\ exitStatus = "running"
    /\ errmsg = ""
    /\ prog = p
    /\ gridSize = n
    /\ numParticles = np
    /\ nthreads = t
    /\ grid = InitGrid(n)
    /\ radius = 0
    /\ next = 0
    /\ pc = [w \in 1 .. t |-> "fetch"]
    /\ x = [w \in 1 .. t |-> 0]
    /\ y = [w \in 1 .. t |-> 0]
    /\ tempRadius = [w \in 1 .. t |-> 0]
    /\ output = << >>
    /\ emitted = FALSE
    /\ spawned = 0
    /\ lastSnap = 0
    /\ satSeen = FALSE

Init ==
    \E p \in {"seq", "par"}, h \in 0 .. MaxScope, np \in 0 .. MaxScope,
       t \in 1 .. MaxScope :
        /\ h + np + t <= MaxScope
        /\ p = "seq" => t = 1
        /\ LoopEntry(p, 2 * h + 1, np, t)

\* --------------------------------------------------------------- actions
\* the loop header: the for condition (seq), the dispatch of one iteration
\* under schedule(dynamic, 1) (par)
Fetch(w) ==
    /\ pc[w] = "fetch"
    /\ IF hasIteration(next, numParticles)
       THEN /\ pc' = [pc EXCEPT ![w] = "snap"]
            /\ next' = IF prog = "par" THEN next + 1 ELSE next
       ELSE /\ pc' = [pc EXCEPT ![w] = "done"]
            /\ next' = next
    /\ UNCHANGED <<argv, mainpc, exitStatus, errmsg, prog, gridSize,
                   numParticles, nthreads, grid, radius, x, y,
                   tempRadius, output, emitted, spawned, lastSnap, satSeen>>

\* the read of radius at the top of the body (inside critical(radius) in
\* par) and the saturation test: break (seq), continue (par), either of
\* which ends the body, so that tempRadius goes out of scope (held at 0)
Snapshot(w) ==
    /\ pc[w] = "snap"
    /\ lastSnap' = radius
    /\ IF Saturated(gridSize, radius)
       THEN /\ pc' = [pc EXCEPT ![w] = IF prog = "seq" THEN "done" ELSE "fetch"]
            /\ tempRadius' = [tempRadius EXCEPT ![w] = 0]
            /\ satSeen' = TRUE
       ELSE /\ pc' = [pc EXCEPT ![w] = "spawn"]
            /\ tempRadius' = [tempRadius EXCEPT ![w] = radius]
            /\ satSeen' = satSeen
    /\ UNCHANGED <<argv, mainpc, exitStatus, errmsg, prog, gridSize,
                   numParticles, nthreads, grid, radius, next,
                   x, y, output, emitted, spawned>>

\* generatePoint returns; walkParticle is entered with the point
Spawn(w) ==
    /\ pc[w] = "spawn"
    /\ \E px \in 0 .. gridSize - 1, py \in 0 .. gridSize - 1 :
        /\ generatePointAccepts(prog, grid, Center(gridSize), tempRadius[w], px, py)
        /\ x' = [x EXCEPT ![w] = px]
        /\ y' = [y EXCEPT ![w] = py]
    /\ pc' = [pc EXCEPT ![w] = "check"]
    /\ spawned' = spawned + 1
    /\ UNCHANGED <<argv, mainpc, exitStatus, errmsg, prog, gridSize,
                   numParticles, nthreads, grid, radius, next,
                   tempRadius, output, emitted, lastSnap, satSeen>>

\* walkParticle, top of the while body: shouldStick
Check(w) ==
    /\ pc[w] = "check"
    /\ pc' = [pc EXCEPT ![w] =
                IF shouldStick(grid, gridSize, x[w], y[w]) THEN "write" ELSE "move"]
    /\ UNCHANGED <<argv, mainpc, exitStatus, errmsg, prog, gridSize,
                   numParticles, nthreads, grid, radius, next,
                   x, y, tempRadius, output, emitted, spawned, lastSnap, satSeen>>

\* grid[x][y] = 'X' (seq), writeGrid(grid, x, y, 'X') (par); the walk returns
Write(w) ==
    /\ pc[w] = "write"
    /\ grid' = writeGrid(grid, x[w], y[w], STUCK)
    /\ pc' = [pc EXCEPT ![w] = "update"]
    /\ UNCHANGED <<argv, mainpc, exitStatus, errmsg, prog, gridSize,
                   numParticles, nthreads, radius, next, x, y,
                   tempRadius, output, emitted, spawned, lastSnap, satSeen>>

\* the accepted draw of nextMove, x and y take it, and the while condition:
\* outside the lattice the walk returns
Move(w) ==
    /\ pc[w] = "move"
    /\ \E dx \in -1 .. 1, dy \in -1 .. 1 :
        /\ moveAccepted(prog, grid, gridSize, x[w] + dx, y[w] + dy)
        /\ x' = [x EXCEPT ![w] = x[w] + dx]
        /\ y' = [y EXCEPT ![w] = y[w] + dy]
        /\ pc' = [pc EXCEPT ![w] =
                    IF InBounds(gridSize, x[w] + dx, y[w] + dy)
                    THEN "check" ELSE "update"]
    /\ UNCHANGED <<argv, mainpc, exitStatus, errmsg, prog, gridSize,
                   numParticles, nthreads, grid, radius, next,
                   tempRadius, output, emitted, spawned, lastSnap, satSeen>>

\* the update without its test that the particle is inside the lattice
UpdateUnguarded(w) ==
    /\ pc[w] = "update"
    /\ radius' = propose(radius, distance(Center(gridSize), x[w], y[w]))
    /\ pc' = [pc EXCEPT ![w] = "fetch"]
    /\ next' = IF prog = "seq" THEN next + 1 ELSE next
    /\ x' = [x EXCEPT ![w] = 0]
    /\ y' = [y EXCEPT ![w] = 0]
    /\ tempRadius' = [tempRadius EXCEPT ![w] = 0]
    /\ UNCHANGED <<argv, mainpc, exitStatus, errmsg, prog, gridSize,
                   numParticles, nthreads, grid, output,
                   emitted, spawned, lastSnap, satSeen>>

\* after the walk: a particle inside the lattice stuck, its distance raises
\* radius (inside critical(radius) in par); the body ends and x, y and
\* tempRadius go out of scope (held at 0)
Update(w) ==
    /\ pc[w] = "update"
    /\ radius' = IF InBounds(gridSize, x[w], y[w])
                 THEN propose(radius, distance(Center(gridSize), x[w], y[w]))
                 ELSE radius
    /\ pc' = [pc EXCEPT ![w] = "fetch"]
    /\ next' = IF prog = "seq" THEN next + 1 ELSE next
    /\ x' = [x EXCEPT ![w] = 0]
    /\ y' = [y EXCEPT ![w] = 0]
    /\ tempRadius' = [tempRadius EXCEPT ![w] = 0]
    /\ UNCHANGED <<argv, mainpc, exitStatus, errmsg, prog, gridSize,
                   numParticles, nthreads, grid, output,
                   emitted, spawned, lastSnap, satSeen>>

\* the loop with nowait: the first thread out of it writes the file
EmitEarly ==
    /\ ~emitted
    /\ \E w \in Workers : pc[w] = "done"
    /\ output' = writeToFile(grid, gridSize)
    /\ emitted' = TRUE
    /\ UNCHANGED <<argv, mainpc, exitStatus, errmsg, prog, gridSize,
                   numParticles, nthreads, grid, radius, next,
                   pc, x, y, tempRadius, spawned, lastSnap, satSeen>>

\* after the loop (the implicit barrier of the parallel-for): writeToFile
Emit ==
    /\ ~emitted
    /\ \A w \in Workers : pc[w] = "done"
    /\ output' = writeToFile(grid, gridSize)
    /\ emitted' = TRUE
    /\ UNCHANGED <<argv, mainpc, exitStatus, errmsg, prog, gridSize,
                   numParticles, nthreads, grid, radius, next,
                   pc, x, y, tempRadius, spawned, lastSnap, satSeen>>

\* ------------------------------------------------------------------ main
\* exit(EXIT_FAILURE) after a message on std::cerr
Fail(msg) ==
    /\ exitStatus' = "EXIT_FAILURE"
    /\ errmsg' = msg
    /\ mainpc' = mainpc

Pass(to) ==
    /\ mainpc' = to
    /\ UNCHANGED <<exitStatus, errmsg>>

\* if (argc != 3)
CheckArgc ==
    /\ mainpc = "argc" /\ exitStatus = "running"
    /\ IF Len(argv) + 1 # 3 THEN Fail("Requires one argument") ELSE Pass("regex")
    /\ UNCHANGED <<argv, prog, gridSize, numParticles, nthreads, grid, radius,
                   next, pc, x, y, tempRadius, output, emitted, spawned,
                   lastSnap, satSeen>>

\* if (!regex_match(gridSizeStr, ...) || !regex_match(numParticlesStr, ...))
CheckRegex ==
    /\ mainpc = "regex" /\ exitStatus = "running"
    /\ IF ~regex_match(argv[1]) \/ ~regex_match(argv[2])
       THEN Fail("Grid Size and Number of Particles must be positive integers")
       ELSE Pass("parse")
    /\ UNCHANGED <<argv, prog, gridSize, numParticles, nthreads, grid, radius,
                   next, pc, x, y, tempRadius, output, emitted, spawned,
                   lastSnap, satSeen>>

\* try { tempSize = stoi(...); tempParticles = stoul(...); } catch (...)
\* (gridSize and numParticles stand for tempSize and tempParticles too)
Parse ==
    /\ mainpc = "parse" /\ exitStatus = "running"
    /\ IF ~stoi(argv[1]).ok \/ ~stoul(argv[2]).ok
       THEN /\ Fail("Grid Size and Number of Particles must be positive integers")
            /\ UNCHANGED <<gridSize, numParticles>>
       ELSE /\ Pass("odd")
            /\ gridSize' = stoi(argv[1]).val
            /\ numParticles' = stoul(argv[2]).val
    /\ UNCHANGED <<argv, prog, nthreads, grid, radius, next, pc, x, y,
                   tempRadius, output, emitted, spawned, lastSnap, satSeen>>

\* if (tempSize % 2 == 0)
CheckOdd ==
    /\ mainpc = "odd" /\ exitStatus = "running"
    /\ IF IsEven(gridSize) THEN Fail("Grid Size must be odd") ELSE Pass("construct")
    /\ UNCHANGED <<argv, prog, gridSize, numParticles, nthreads, grid, radius,
                   next, pc, x, y, tempRadius, output, emitted, spawned,
                   lastSnap, satSeen>>

\* the lattice, radius, the seed; the threads enter the loop
Construct ==
    /\ mainpc = "construct" /\ exitStatus = "running"
    /\ grid' = InitGrid(gridSize)
    /\ radius' = 0
    /\ next' = 0
    /\ pc' = [w \in Workers |-> "fetch"]
    /\ Pass("loop")
    /\ UNCHANGED <<argv, prog, gridSize, numParticles, nthreads, x, y,
                   tempRadius, output, emitted, spawned, lastSnap, satSeen>>

\* main returns after writeToFile
Return ==
    /\ mainpc = "loop" /\ exitStatus = "running"
    /\ emitted
    /\ mainpc' = "end"
    /\ exitStatus' = "EXIT_SUCCESS"
    /\ UNCHANGED <<argv, errmsg, prog, gridSize, numParticles, nthreads, grid,
                   radius, next, pc, x, y, tempRadius, output, emitted,
                   spawned, lastSnap, satSeen>>

Next ==
    \/ \E w \in Workers : Fetch(w)
    \/ \E w \in Workers : Snapshot(w)
    \/ \E w \in Workers : Spawn(w)
    \/ \E w \in Workers : Check(w)
    \/ \E w \in Workers : Write(w)
    \/ \E w \in Workers : Move(w)
    \/ \E w \in Workers : Update(w)
    \/ Emit
    \/ Return

Spec == Init /\ [][Next]_vars

\* --------------------------------------------- main from the command line
\* the arguments tried: empty, numbers, numbers with a zero in front, a
\* letter, a number with a letter behind, a negative number, INT_MAX + 1
\* and ULONG_MAX + 1
TokenPool ==
    {<< >>, <<"0">>, <<"1">>, <<"2">>, <<"3">>, <<"5">>, <<"0", "3">>,
     <<"a">>, <<"3", "a">>, <<"-", "1">>,
     <<"2", "1", "4", "7", "4", "8", "3", "6", "4", "8">>,
     <<"1", "8", "4", "4", "6", "7", "4", "4", "0", "7",
       "3", "7", "0", "9", "5", "5", "1", "6", "1", "6">>}

\* no argument up to three of them
ArgvPool == UNION {[1 .. k -> TokenPool] : k \in 0 .. 3}

\* the arguments pass every check of main
Accepted(a) ==
    /\ Len(a) + 1 = 3
    /\ regex_match(a[1]) /\ regex_match(a[2])
    /\ stoi(a[1]).ok /\ stoul(a[2]).ok
    /\ ~IsEven(stoi(a[1]).val)

\* the process as started: nothing of main has run
InitMain ==
    \E p \in {"seq", "par"}, t \in 1 .. MaxScope, a \in ArgvPool :
        /\ p = "seq" => t = 1
        /\ Accepted(a) =>
            /\ stoi(a[1]).val \div 2 <= MaxScope
            /\ stoul(a[2]).val <= MaxScope
            /\ stoi(a[1]).val \div 2 + stoul(a[2]).val + t <= MaxScope
        /\ argv = a
        /\ mainpc = "argc"
        /\ exitStatus = "running"
        /\ errmsg = ""
        /\ prog = p
        /\ gridSize = 0
        /\ numParticles = 0
        /\ nthreads = t
        /\ grid = << >>
        /\ radius = 0
        /\ next = 0
        /\ pc = [w \in 1 .. t |-> "idle"]
        /\ x = [w \in 1 .. t |-> 0]
        /\ y = [w \in 1 .. t |-> 0]
        /\ tempRadius = [w \in 1 .. t |-> 0]
        /\ output = << >>
        /\ emitted = FALSE
        /\ spawned = 0
        /\ lastSnap = 0
        /\ satSeen = FALSE

NextMain ==
    \/ CheckArgc
    \/ CheckRegex
    \/ Parse
    \/ CheckOdd
    \/ Construct
    \/ Next

SpecMain == InitMain /\ [][NextMain]_vars

\* ------------------------------------------- writeToFile on any lattice
\* the lattices written: up to gridSize 2 * MaxCsvHalf + 1
MaxCsvHalf == 2

\* every lattice of size 1 or 3, and every lattice up to the largest size
\* that is all of one value but for three cells or fewer
CsvLattices(n) ==
    IF n <= 3
    THEN [0 .. n - 1 -> [0 .. n - 1 -> {EMPTY, STUCK}]]
    ELSE {[i \in 0 .. n - 1 |-> [k \in 0 .. n - 1 |->
                IF <<i, k>> \in {c1, c2, c3} THEN v[2] ELSE v[1]]] :
            c1 \in Cells(n), c2 \in Cells(n), c3 \in Cells(n),
            v \in {<<EMPTY, STUCK>>, <<STUCK, EMPTY>>}}

\* main after the loop, about to call writeToFile, holding any such lattice
InitCsv ==
    \E p \in {"seq", "par"}, h \in 0 .. MaxCsvHalf :
      \E g \in CsvLattices(2 * h + 1) :
        /\ argv = <<Decimal(2 * h + 1), Decimal(0)>>
        /\ mainpc = "loop"
        /\ exitStatus = "running"
        /\ errmsg = ""
        /\ prog = p
        /\ gridSize = 2 * h + 1
        /\ numParticles = 0
        /\ nthreads = 1
        /\ grid = g
        /\ radius = 0
        /\ next = 0
        /\ pc = [w \in 1 .. 1 |-> "done"]
        /\ x = [w \in 1 .. 1 |-> 0]
        /\ y = [w \in 1 .. 1 |-> 0]
        /\ tempRadius = [w \in 1 .. 1 |-> 0]
        /\ output = << >>
        /\ emitted = FALSE
        /\ spawned = 0
        /\ lastSnap = 0
        /\ satSeen = FALSE

NextCsv ==
    \/ Emit
    \/ Return

SpecCsv == InitCsv /\ [][NextCsv]_vars

\* --------------------------------- parallel.cc, one family of schedules
\* parallel.cc with gridSize 11, numParticles 10 and two threads, under
\* schedules and draws that the program allows but that are not all of
\* them.  Every step below is a step of Next, so every behaviour of
\* SpecBlock is a behaviour of the program on these arguments.
\*   - every particle is generated with y = 0 and x = center or
\*     center +- 2;
\*   - every move adds 1 to y and leaves x or takes it one towards center;
\*   - thread 1 runs alone until it is choosing a move at y = center - 2;
\*     there it is descheduled until thread 2 has left the loop, and
\*     thread 2 runs only while thread 1 is held there;
\*   - thread 2 goes on from a stick only inside the 3 x 3 block around
\*     thread 1's particle.
Held == pc[1] = "move" /\ y[1] = Center(gridSize) - 2

Scheduled(w) ==
    IF w = 1 THEN ~Held \/ pc[2] = "done" ELSE Held

SpawnDrawn(w) ==
    /\ y'[w] = 0
    /\ x'[w] \in {Center(gridSize) - 2, Center(gridSize), Center(gridSize) + 2}

MoveDrawn(w) ==
    /\ y'[w] = y[w] + 1
    /\ \/ x'[w] = x[w]
       \/ Abs(Center(gridSize) - x'[w]) < Abs(Center(gridSize) - x[w])

WriteInBlock(w) ==
    w = 2 => (Abs(x[2] - x[1]) <= 1 /\ Abs(y[2] - y[1]) <= 1)

InitBlock == LoopEntry("par", 11, 10, 2)

NextBlock ==
    \/ \E w \in Workers : Scheduled(w) /\ Fetch(w)
    \/ \E w \in Workers : Scheduled(w) /\ Snapshot(w)
    \/ \E w \in Workers : Scheduled(w) /\ Spawn(w) /\ SpawnDrawn(w)
    \/ \E w \in Workers : Scheduled(w) /\ Check(w)
    \/ \E w \in Workers : Scheduled(w) /\ Write(w) /\ WriteInBlock(w)
    \/ \E w \in Workers : Scheduled(w) /\ Move(w) /\ MoveDrawn(w)
    \/ \E w \in Workers : Scheduled(w) /\ Update(w)
    \/ Emit
    \/ Return

SpecBlock == InitBlock /\ [][NextBlock]_vars

\* parallel.cc with gridSize 5, numParticles 18 and a team of 18 threads,
\* again under some of the schedules and draws the program allows (every
\* step below is a step of Next).
\*   - the threads take their first iteration and read radius one after
\*     the other, in the order of their numbers, before any of them
\*     generates a point;
\*   - after that a thread runs only when every thread of lower number has
\*     left the loop;
\*   - thread 1's draws are free; another thread draws a starting point
\*     that has a STUCK cell among its neighbours, or, when thread 1's
\*     particle was lost, the corner (0,0); its move is one that takes
\*     its particle out of the lattice.
Dispatching == spawned = 0 /\ \E v \in Workers : pc[v] # "spawn"

InTurn(w) ==
    IF Dispatching
    THEN pc[w] # "spawn" /\ \A v \in 1 .. w - 1 : pc[v] = "spawn"
    ELSE \A v \in 1 .. w - 1 : pc[v] = "done"

SpawnNear(w) ==
    \/ w = 1
    \/ shouldStick(grid, gridSize, x'[w], y'[w])
    \/ radius = 0 /\ x'[w] = 0 /\ y'[w] = 0

MoveOut(w) == w = 1 \/ ~InBounds(gridSize, x'[w], y'[w])

InitCrowd == LoopEntry("par", 5, 18, 18)

NextCrowd ==
    \/ \E w \in Workers : InTurn(w) /\ Fetch(w)
    \/ \E w \in Workers : InTurn(w) /\ Snapshot(w)
    \/ \E w \in Workers : InTurn(w) /\ Spawn(w) /\ SpawnNear(w)
    \/ \E w \in Workers : InTurn(w) /\ Check(w)
    \/ \E w \in Workers : InTurn(w) /\ Write(w)
    \/ \E w \in Workers : InTurn(w) /\ Move(w) /\ MoveOut(w)
    \/ \E w \in Workers : InTurn(w) /\ Update(w)
    \/ Emit
    \/ Return

SpecCrowd == InitCrowd /\ [][NextCrowd]_vars

\* ------------------------------------------------------------ properties
\* what the properties speak of, defined apart from the program's own
\* functions
StuckCells == {c \in Cells(gridSize) : grid[c[1]][c[2]] = STUCK}

Seed == <<gridSize \div 2, gridSize \div 2>>

\* Chebyshev distance of a cell from the centre
Cheb(c) ==
    LET a == IF c[1] < Seed[1] THEN Seed[1] - c[1] ELSE c[1] - Seed[1]
        b == IF c[2] < Seed[2] THEN Seed[2] - c[2] ELSE c[2] - Seed[2]
    IN  IF a > b THEN a ELSE b

Neighbours8(a, b) ==
    /\ a # b
    /\ a[1] - b[1] \in -1 .. 1
    /\ a[2] - b[2] \in -1 .. 1

\* the cells of S joined to a cell of R by a path of 8-neighbours inside S
RECURSIVE Component(_, _)
Component(R, S) ==
    LET T == R \cup {c \in S : \E d \in R : Neighbours8(c, d)}
    IN  IF T = R THEN R ELSE Component(T, S)

AllDone == \A w \in Workers : pc[w] = "done"

\* C1: connectivity.  In every reachable state of either program every
\* STUCK cell is joined to the seed cell by a path of STUCK cells whose
\* consecutive cells are 8-neighbours.
C1_Connectivity == Component({Seed}, StuckCells) = StuckCells

\* C1, its case: two threads have grown a chain that leaves the centre's
\* neighbourhood.
C1_Witness ==
    /\ prog = "par"
    /\ nthreads >= 2
    /\ Cardinality(StuckCells) >= 3
    /\ \E c \in StuckCells : Cheb(c) = 2

\* C2: radius range, as claimed.  For odd N >= 3 the stored radius is within
\* 0 .. N/2 - 1 in every reachable state of either program.
C2_RadiusRange ==
    gridSize >= 3 => (0 <= radius /\ radius <= gridSize \div 2 - 1)

\* C3: at the end of the particle loop (all threads done, the lattice about
\* to be written or written) every STUCK cell is within Chebyshev distance
\* radius of the centre.
C3_RadiusCovers ==
    AllDone => \A c \in StuckCells : Cheb(c) <= radius

\* C3, its case: the parallel loop is over and left a crystal of three cells
\* or more that reaches distance 2.
C3_Witness ==
    /\ AllDone
    /\ prog = "par"
    /\ Cardinality(StuckCells) >= 3
    /\ \E c \in StuckCells : Cheb(c) = 2

\* C4: the stored radius never decreases in a step, and each read of radius
\* at the top of the loop body returns at least what the read before it
\* returned.
C4_MonotoneRadius == [][radius' >= radius /\ lastSnap' >= lastSnap]_vars

\* C4, its case: a thread whose cell at distance 1 is marked has yet to
\* propose, while a cell marked later, at distance 2, is proposed already.
C4_Witness ==
    /\ prog = "par"
    /\ gridSize = 5
    /\ radius = 2
    /\ \E w \in Workers :
        /\ pc[w] = "update"
        /\ x[w] \in 0 .. gridSize - 1
        /\ y[w] \in 0 .. gridSize - 1
        /\ Cheb(<<x[w], y[w]>>) = 1
        /\ grid[x[w]][y[w]] = STUCK

\* C5: every cell is EMPTY or STUCK, no step turns a STUCK cell into
\* anything else, and the seed cell is STUCK in every reachable state.
C5_OneWayCells ==
    /\ [](/\ \A c \in Cells(gridSize) : grid[c[1]][c[2]] \in {EMPTY, STUCK}
          /\ grid[Seed[1]][Seed[2]] = STUCK)
    /\ [][\A c \in Cells(gridSize) :
            grid[c[1]][c[2]] = STUCK => grid'[c[1]][c[2]] = STUCK]_vars

\* C5, its case: a thread is about to write a cell that another thread has
\* made STUCK in the meantime.
C5_Witness ==
    \E w \in Workers : pc[w] = "write" /\ grid[x[w]][y[w]] = STUCK

\* C6: particle budget.  generatePoint returns at most numParticles points
\* over all threads together, and the lattice never holds more than
\* numParticles + 1 STUCK cells.
C6_ParticleBudget ==
    /\ spawned <= numParticles
    /\ Cardinality(StuckCells) <= numParticles + 1

\* C6, its case: a team of two or more threads has used up a budget of two
\* or more particles and every one of them stuck.
C6_Witness ==
    /\ nthreads >= 2
    /\ numParticles >= 2
    /\ spawned = numParticles
    /\ Cardinality(StuckCells) = numParticles + 1

\* C7: break-equivalent early termination, as claimed.  Once a read of
\* radius at the top of the loop body has seen radius >= N/2 - 1, no thread
\* spawns a particle or begins a walk.
C7_BreakEquivalent == [][satSeen => spawned' = spawned]_vars

\* a cell inside the lattice within one step of (px, py), or (px, py)
\* itself, is STUCK in lattice g
NearStuck(g, px, py) ==
    \E c \in Cells(gridSize) :
        /\ c[1] - px \in -1 .. 1
        /\ c[2] - py \in -1 .. 1
        /\ g[c[1]][c[2]] = STUCK

\* C8: no spawn next to the crystal, as claimed.  When generatePoint returns
\* (x, y), no cell of the 8-neighbourhood of (x, y) is STUCK.
C8_NoSpawnNextToCrystal ==
    [][\A w \in Workers :
        (pc[w] = "spawn" /\ pc'[w] = "check")
            => ~NearStuck(grid', x'[w], y'[w])]_vars

\* C9: the Spawner can always finish, as claimed.  While generatePoint runs
\* with a snapshot tempRadius < N/2 - 1, some draw ends its loop: there is
\* a cell of the lattice outside the exclusion square of half-side
\* tempRadius + 1 that (in parallel.cc) is EMPTY.
C9_SpawnerCanFinish ==
    \A w \in Workers :
        (pc[w] = "spawn" /\ tempRadius[w] < gridSize \div 2 - 1) =>
            \E c \in Cells(gridSize) :
                /\ Cheb(c) > tempRadius[w] + 1
                /\ prog = "par" => grid[c[1]][c[2]] = EMPTY

\* gridSize lines of gridSize values, all "0" but the one in the middle
SeedOnlyText(n) ==
    [i \in 1 .. 2 * n * n - 1 |->
        IF i % (2 * n) = 0 THEN "\n"
        ELSE IF i % 2 = 0 THEN ","
        ELSE IF i = 2 * n * (n \div 2) + 2 * (n \div 2) + 1 THEN "1"
        ELSE "0"]

\* C10: degenerate inputs.  With gridSize 1 or 3, or with numParticles 0, no
\* thread ever enters generatePoint or a walk, the seed stays the only STUCK
\* cell, and the text written has "1" for the centre and "0" elsewhere.
C10_Degenerate ==
    (gridSize \in {1, 3} \/ numParticles = 0) =>
        /\ spawned = 0
        /\ \A w \in Workers : pc[w] \in {"fetch", "snap", "done"}
        /\ StuckCells = {Seed}
        /\ emitted => output = SeedOnlyText(gridSize)

\* C10, its case: two threads have run a budget of two or more particles on
\* the 3 x 3 lattice to the end and the file is written.
C10_Witness ==
    /\ emitted
    /\ gridSize = 3
    /\ numParticles >= 2
    /\ nthreads = 2
    /\ next = numParticles

\* the thread's particle is on a cell of the lattice
OnLattice(w) == <<x[w], y[w]>> \in Cells(gridSize)

\* C14: radius is touched only by sticks.  A walk that has ended is on a
\* STUCK cell of the lattice or outside the lattice; the step that takes a
\* particle out of the lattice and the update that follows it change no cell
\* and not radius; a cell changes only by the write that ends a walk on that
\* cell; radius changes only in the update after a walk that ended on a
\* STUCK cell, to the Chebyshev distance of that cell.
C14_RadiusOnlyBySticks ==
    /\ [](\A w \in Workers :
            (pc[w] = "update" /\ OnLattice(w)) => grid[x[w]][y[w]] = STUCK)
    /\ [][\A w \in Workers :
            /\ (pc[w] = "move" /\ pc'[w] = "update")
                => (grid' = grid /\ radius' = radius
                    /\ <<x'[w], y'[w]>> \notin Cells(gridSize))
            /\ (pc[w] = "update" /\ pc'[w] = "fetch" /\ ~OnLattice(w))
                => (grid' = grid /\ radius' = radius)]_vars
    /\ [][grid' # grid =>
            \E w \in Workers :
                /\ pc[w] = "write" /\ pc'[w] = "update"
                /\ OnLattice(w)
                /\ x'[w] = x[w] /\ y'[w] = y[w]
                /\ \A c \in Cells(gridSize) :
                    c # <<x[w], y[w]>> => grid'[c[1]][c[2]] = grid[c[1]][c[2]]]_vars
    /\ [][radius' # radius =>
            \E w \in Workers :
                /\ pc[w] = "update" /\ pc'[w] = "fetch"
                /\ OnLattice(w)
                /\ grid[x[w]][y[w]] = STUCK
                /\ radius' = Cheb(<<x[w], y[w]>>)]_vars

\* C14, its case: a walk has just ended outside the lattice while the
\* crystal has grown and radius with it.
C14_Witness ==
    /\ radius >= 1
    /\ Cardinality(StuckCells) >= 2
    /\ \E w \in Workers : pc[w] = "update" /\ ~OnLattice(w)

C16_SameCellBenign ==
    [][prog = "par" =>
        \A w \in Workers :
            /\ (pc[w] = "write" /\ pc'[w] = "update" /\ grid[x[w]][y[w]] = STUCK)
                => grid' = grid
            /\ (pc[w] = "update" /\ pc'[w] = "fetch" /\ OnLattice(w)
                    /\ radius >= Cheb(<<x[w], y[w]>>))
                => radius' = radius
            /\ \A v \in Workers \ {w} :
                (/\ pc[w] = "update" /\ pc'[w] = "fetch" /\ OnLattice(w)
                 /\ pc[v] = "update" /\ x[v] = x[w] /\ y[v] = y[w])
                => /\ radius' = (IF Cheb(<<x[w], y[w]>>) > radius
                                 THEN Cheb(<<x[w], y[w]>>) ELSE radius)
                   /\ pc'[v] = "update"
                   /\ radius' >= Cheb(<<x'[v], y'[v]>>)]_vars

\* C16, its case: two threads have both written 'X' to one cell beyond
\* radius and neither has proposed yet.
C16_Witness ==
    /\ prog = "par"
    /\ \E w \in Workers, v \in Workers :
        /\ w # v
        /\ pc[w] = "update" /\ pc[v] = "update"
        /\ OnLattice(w)
        /\ x[v] = x[w] /\ y[v] = y[w]
        /\ Cheb(<<x[w], y[w]>>) > radius

\* the largest Chebyshev distance from the centre to a STUCK cell
RECURSIVE MaxCheb(_)
MaxCheb(S) ==
    IF S = {} THEN 0
    ELSE LET c == CHOOSE e \in S : TRUE
             m == MaxCheb(S \ {c})
         IN  IF Cheb(c) > m THEN Cheb(c) ELSE m

\* thread w has marked a cell and has yet to complete its propose
Pending(w) == pc[w] = "update" /\ OnLattice(w)

\* C17: radius never overestimates.  In every reachable state of both
\* programs radius is at most the largest Chebyshev distance from the centre
\* to a STUCK cell, and it equals it whenever no thread is between marking
\* its cell and completing its propose.
C17_RadiusNeverOver ==
    /\ radius <= MaxCheb(StuckCells)
    /\ (\A w \in Workers : ~Pending(w)) => radius = MaxCheb(StuckCells)

\* C17, its case: a thread of the parallel program has marked a cell at
\* distance 2 that radius, raised to 1 by another thread, does not cover yet.
C17_Witness ==
    /\ prog = "par"
    /\ radius = 1
    /\ MaxCheb(StuckCells) = 2
    /\ \E w \in Workers : Pending(w) /\ Cheb(<<x[w], y[w]>>) = 2

\* the lattice g of size n as text: n lines of n values parted by commas,
\* "1" for a STUCK cell, the lines parted by newlines
LatticeText(g, n) ==
    [i \in 1 .. 2 * n * n - 1 |->
        LET row == (i - 1) \div (2 * n)
            j == (i - 1) % (2 * n)
        IN  IF j = 2 * n - 1 THEN "\n"
            ELSE IF j % 2 = 1 THEN ","
            ELSE IF g[row][j \div 2] = STUCK THEN "1"
            ELSE "0"]

\* C18: output after quiescence.  In the parallel program writeToFile runs
\* only when every thread has left the loop, no cell and not radius changes
\* in that step or after it, and the text written is that of the final
\* lattice.
C18_OutputAfterQuiescence ==
    /\ [](prog = "par" /\ emitted => output = LatticeText(grid, gridSize))
    /\ [][(prog = "par" /\ (emitted \/ emitted')) =>
            /\ \A w \in Workers : pc[w] = "done" /\ pc'[w] = "done"
            /\ grid' = grid
            /\ radius' = radius]_vars

\* C18, its case: a team of two has stuck two particles and the file is
\* written.
C18_Witness ==
    /\ prog = "par"
    /\ emitted
    /\ nthreads >= 2
    /\ Cardinality(StuckCells) >= 3

\* C19: the sequential walker stays on EMPTY cells.  In the sequential
\* program the particle's cell is EMPTY from the return of generatePoint,
\* through every move that stays inside the lattice, up to the write that
\* sticks it; that write turns exactly one EMPTY cell into STUCK, and no
\* step raises radius by more than 1.
C19_SeqWalkerOnEmpty ==
    /\ [](prog = "seq" =>
            \A w \in Workers :
                pc[w] \in {"check", "move", "write"} =>
                    /\ OnLattice(w)
                    /\ grid[x[w]][y[w]] = EMPTY)
    /\ [][prog = "seq" =>
            /\ radius' <= radius + 1
            /\ \A w \in Workers :
                (pc[w] = "write" /\ pc'[w] = "update") =>
                    /\ grid[x[w]][y[w]] = EMPTY
                    /\ grid'[x[w]][y[w]] = STUCK
                    /\ StuckCells' = StuckCells \cup {<<x[w], y[w]>>}
                    /\ Cardinality(StuckCells') = Cardinality(StuckCells) + 1]_vars

\* C19, its case: the sequential walker has moved next to a crystal of three
\* cells and is about to stick at distance 2.
C19_Witness ==
    /\ prog = "seq"
    /\ Cardinality(StuckCells) >= 3
    /\ radius = 1
    /\ \E w \in Workers :
        /\ pc[w] = "write"
        /\ Cheb(<<x[w], y[w]>>) = 2

\* C20: the parallel program with one thread equals the sequential one.
\* What the two programs do differently is the emptiness test of
\* generatePoint, the redraw of the move loop and continue for break.  With
\* one thread: while generatePoint runs, every point outside the exclusion
\* square is EMPTY, so the emptiness test rejects no draw that sequential.cc
\* would take; while the move loop runs, every target inside the lattice is
\* EMPTY, so no draw is redrawn; and after a read of radius saw saturation
\* no point is generated and no cell or radius changes, as after break.
C20_OneThreadIsSequential ==
    /\ []((prog = "par" /\ nthreads = 1) =>
            \A w \in Workers :
                /\ pc[w] = "spawn" =>
                    \A c \in Cells(gridSize) :
                        ~Excluded(gridSize \div 2, tempRadius[w], c[1], c[2])
                            => grid[c[1]][c[2]] = EMPTY
                /\ pc[w] = "move" =>
                    \A dx \in -1 .. 1, dy \in -1 .. 1 :
                        <<x[w] + dx, y[w] + dy>> \in Cells(gridSize)
                            => grid[x[w] + dx][y[w] + dy] = EMPTY)
    /\ [][(prog = "par" /\ nthreads = 1 /\ satSeen) =>
            /\ spawned' = spawned
            /\ grid' = grid
            /\ radius' = radius
            /\ \A w \in Workers : pc'[w] \in {"fetch", "snap", "done"}]_vars

\* C20, its case: the one thread of the parallel program is choosing a move
\* on a lattice whose crystal has grown to three cells.
C20_Witness ==
    /\ prog = "par"
    /\ nthreads = 1
    /\ Cardinality(StuckCells) >= 3
    /\ pc[1] = "move"

\* what the arguments are, read off their characters alone
DecimalDigits == <<"0", "1", "2", "3", "4", "5", "6", "7", "8", "9">>

AllDigits(tok) ==
    /\ tok # << >>
    /\ \A i \in 1 .. Len(tok) : \E k \in 1 .. 10 : DecimalDigits[k] = tok[i]

Rank(ch) == CHOOSE k \in 1 .. 10 : DecimalDigits[k] = ch

RECURSIVE Stripped(_)
Stripped(tok) ==
    IF Len(tok) > 1 /\ tok[1] = "0" THEN Stripped(Tail(tok)) ELSE tok

\* the number spelt by the digits of tok is at most the one spelt by lim
AtMost(tok, lim) ==
    LET s == Stripped(tok)
    IN  \/ Len(s) < Len(lim)
        \/ /\ Len(s) = Len(lim)
           /\ ~\E i \in 1 .. Len(s) :
                /\ Rank(s[i]) > Rank(lim[i])
                /\ \A j \in 1 .. i - 1 : s[j] = lim[j]

IntMaxDigits == <<"2", "1", "4", "7", "4", "8", "3", "6", "4", "7">>

\* the first check the arguments fail, in the order count, format, parse,
\* oddness; "none" when they pass all four
FirstFailure(a) ==
    IF Len(a) # 2 THEN "count"
    ELSE IF ~AllDigits(a[1]) \/ ~AllDigits(a[2]) THEN "format"
    ELSE IF ~AtMost(a[1], IntMaxDigits) \/ ~AtMost(a[2], UlongMaxDigits) THEN "parse"
    ELSE IF a[1][Len(a[1])] \in {"0", "2", "4", "6", "8"} THEN "odd"
    ELSE "none"

\* C12: validation before any effect.  For arguments that fail a check, main
\* never goes past the first check they fail (count, format, parse,
\* oddness, in that order): no lattice is constructed, no thread enters the
\* loop, no point is generated and no file is written; and when the process
\* has ended it ended at that check, with EXIT_FAILURE and that check's
\* message.
C12_ValidationFirst ==
    FirstFailure(argv) # "none" =>
        /\ grid = << >>
        /\ output = << >>
        /\ ~emitted
        /\ spawned = 0
        /\ \A w \in Workers : pc[w] = "idle"
        /\ exitStatus \in {"running", "EXIT_FAILURE"}
        /\ mainpc \in
            (CASE FirstFailure(argv) = "count" -> {"argc"}
               [] FirstFailure(argv) = "format" -> {"argc", "regex"}
               [] FirstFailure(argv) = "parse" -> {"argc", "regex", "parse"}
               [] FirstFailure(argv) = "odd" -> {"argc", "regex", "parse", "odd"})
        /\ exitStatus = "EXIT_FAILURE" =>
            CASE FirstFailure(argv) = "count" ->
                    mainpc = "argc" /\ errmsg = "Requires one argument"
              [] FirstFailure(argv) = "format" ->
                    /\ mainpc = "regex"
                    /\ errmsg = "Grid Size and Number of Particles must be positive integers"
              [] FirstFailure(argv) = "parse" ->
                    /\ mainpc = "parse"
                    /\ errmsg = "Grid Size and Number of Particles must be positive integers"
              [] FirstFailure(argv) = "odd" ->
                    mainpc = "odd" /\ errmsg = "Grid Size must be odd"
        /\ (exitStatus = "running" /\ mainpc # "construct") => ENABLED NextMain

\* C12, its case: an even gridSize with a numParticles beyond unsigned long
\* has ended main at the parse, before the oddness test.
C12_Witness ==
    /\ exitStatus = "EXIT_FAILURE"
    /\ Len(argv) = 2
    /\ argv[1] = <<"2">>
    /\ ~AtMost(argv[2], UlongMaxDigits)
    /\ AllDigits(argv[2])
    /\ mainpc = "parse"

\* the text s cut at every sep: the pieces between them, in order
RECURSIVE SplitOn(_, _)
SplitOn(s, sep) ==
    IF \A i \in 1 .. Len(s) : s[i] # sep THEN <<s>>
    ELSE LET i == CHOOSE j \in 1 .. Len(s) :
                    s[j] = sep /\ \A m \in 1 .. j - 1 : s[m] # sep
         IN  <<SubSeq(s, 1, i - 1)>> \o SplitOn(SubSeq(s, i + 1, Len(s)), sep)

\* a text read back as comma-separated values: its lines, each the
\* sequence of its fields
ParseCsv(text) ==
    LET lines == SplitOn(text, "\n")
    IN  [i \in 1 .. Len(lines) |-> SplitOn(lines[i], ",")]

\* C13: CSV round trip.  The text writeToFile produces for an N x N lattice
\* reads back as exactly N lines (so no newline follows the last) of exactly
\* N fields each (so single commas part them), every field "0" or "1", with
\* "1" exactly where the lattice cell is STUCK.
C13_CsvRoundTrip ==
    emitted =>
        LET p == ParseCsv(output)
        IN  /\ Len(p) = gridSize
            /\ \A i \in 1 .. Len(p) :
                /\ Len(p[i]) = gridSize
                /\ \A k \in 1 .. Len(p[i]) :
                    /\ p[i][k] \in {<<"0">>, <<"1">>}
                    /\ p[i][k] = <<"1">> <=> grid[i - 1][k - 1] = STUCK

\* C13, its case: the text of a 5 x 5 lattice of STUCK cells with an EMPTY
\* centre and an EMPTY corner is written.
C13_Witness ==
    /\ emitted
    /\ gridSize = 5
    /\ grid[2][2] = EMPTY
    /\ grid[4][4] = EMPTY
    /\ grid[0][0] = STUCK
    /\ grid[0][4] = STUCK
    /\ Len(output) = 49

\* C11: run to completion, as claimed.  Whatever has happened so far, the
\* run can go on until main has returned: a thread inside generatePoint or
\* inside the move selection of walkParticle has a draw that ends the loop,
\* and until main has ended some step of the program is possible; and when
\* the lattice is written, all numParticles iterations are used up or
\* radius has reached N/2 - 1.
C11_RunToCompletion ==
    /\ \A w \in Workers :
        /\ pc[w] = "spawn" => ENABLED Spawn(w)
        /\ pc[w] = "move" => ENABLED Move(w)
    /\ mainpc = "end" \/ ENABLED Next
    /\ emitted => (next = numParticles \/ radius >= gridSize \div 2 - 1)

====
